---- MODULE Spec2Model ----
(***************************************************************************)
(* Model of package decoder (internal/decoder/decoder.go) of trice:        *)
(* the format specifier classifier UReplaceN, the package switch Unsigned  *)
(* it reads, and the common decoder data DecoderData.                      *)
(*                                                                         *)
(* A Go string is modelled as a sequence of one-character strings.  Go     *)
(* indexes from 0 and slices half-open (s[a:b]); At and Slice keep the     *)
(* source's offsets.                                                       *)
(***************************************************************************)
EXTENDS Integers, Sequences, FiniteSets, TLC

VARIABLES
    Unsigned,   \* package variable decoder.Unsigned
    Endian,     \* DecoderData.Endian: TRUE for little endian
    fmtIn,      \* the format string handed to UReplaceN
    payload,    \* the parameter bytes of the record being formatted
    calls,      \* calls of UReplaceN made so far: 0, 1 or 2 for "two or more"
    first,      \* what the first call of UReplaceN returned (nil before it)
    last,       \* what the latest call of UReplaceN returned (nil before it)
    line,       \* the line composed from last and payload (nil before it)
    In,         \* DecoderData.In: the inner reader, its name, data and position
    IBuf,       \* DecoderData.IBuf: unprocessed raw bytes
    B,          \* DecoderData.B: the package being decoded
    W,          \* DecoderData.W: the lines written so far
    bytes,      \* the slice b handed to ReadU16, ReadU32 and ReadU64
    ret,        \* what the latest of these calls gave (nil before it)
    Lut,        \* DecoderData.Lut: the id look-up map
    LutMutex,   \* DecoderData.LutMutex: who holds or awaits the lock
    procs,      \* the goroutines that use Lut: their position and locals
    LastTriceID,\* package variable decoder.LastTriceID (0: none)
    inst,       \* the decoder instances that use LastTriceID: their locals
    test,       \* the test function that drives a decoder: its locals
    loop        \* a call of UReplaceN inside its for loop: its locals

\* The variables of the classifier, of the decoder data, of the look-up
\* map and of the decoder instances and their callers.
classVars == <<Unsigned, fmtIn, payload, calls, first, last, line, loop>>
dataVars == <<Endian, In, IBuf, B, W, bytes, ret>>
lutVars == <<Lut, LutMutex, procs>>
instVars == <<LastTriceID, inst, test>>

vars == <<classVars, dataVars, lutVars, instVars>>

\* Go's nil (no match / no value yet).
nil == <<>>

\* A reader under the name src that delivers the bytes data, none of them
\* read yet.
NewReader(src, data) == [src |-> src, data |-> data, pos |-> 0]

\* A reader that holds no bytes.
NoInput(src) == NewReader(src, <<>>)

\* The bytes a reader has not delivered yet.
Unread(r) == SubSeq(r.data, r.pos + 1, Len(r.data))

\* The decoder data, the look-up map and the decoder instances where a
\* run does not use them.
DataUnused ==
    /\ In = NoInput(0) /\ IBuf = <<>> /\ B = <<>> /\ W = <<>>
    /\ bytes = <<>> /\ ret = nil

LutUnused ==
    /\ Lut = <<>> /\ LutMutex = [readers |-> {}, writer |-> FALSE, waiting |-> FALSE]
    /\ procs = <<>>

InstUnused == LastTriceID = 0 /\ inst = <<>> /\ test = nil

\* The classifier where a run does not use it.
ClassUnused ==
    /\ Unsigned = FALSE
    /\ fmtIn = <<>> /\ payload = <<>> /\ calls = 0
    /\ first = nil /\ last = nil /\ line = nil /\ loop = nil

\* s[k] with Go's 0-based index.
At(s, k) == s[k + 1]

\* s[a:b] with Go's 0-based, half-open bounds.
Slice(s, a, b) == SubSeq(s, a + 1, b)

----------------------------------------------------------------------------
(* The regular expressions.  Each of the seven patterns has the shape      *)
(* '%' C* V for a character class C and a set V of conversion letters; a   *)
(* pattern is the record of its parts.                                     *)

Digits == {"0", "1", "2", "3", "4", "5", "6", "7", "8", "9"}

\* The directive pattern with s among its letters (%s taken for a
\* directive).
patNextFormatSpecifierWithS ==
    [lead  |-> {"%"},
     cls   |-> Digits \cup {"+", "-", "#", "'", "."},
     verbs |-> {"b", "c", "d", "e", "f", "g", "E", "F", "G", "h", "i", "l",
                "L", "n", "o", "O", "p", "q", "s", "t", "u", "x", "X"}]

\* `%([+\-#'0-9\.0-9])*(b|c|d|e|f|g|E|F|G|h|i|l|L|n|o|O|p|q|t|u|x|X)`
patNextFormatSpecifier ==
    [lead  |-> {"%"},
     cls   |-> Digits \cup {"+", "-", "#", "'", "."},
     verbs |-> {"b", "c", "d", "e", "f", "g", "E", "F", "G", "h", "i", "l",
                "L", "n", "o", "O", "p", "q", "t", "u", "x", "X"}]

\* `%[0-9]*u`
patNextFormatUSpecifier == [lead |-> {"%"}, cls |-> Digits, verbs |-> {"u"}]

\* `%[0-9]*i`
patNextFormatISpecifier == [lead |-> {"%"}, cls |-> Digits, verbs |-> {"i"}]

\* `%[0-9]*(l|o|O|x|X|b|p|t)`
patNextFormatXSpecifier ==
    [lead  |-> {"%"},
     cls   |-> Digits,
     verbs |-> {"l", "o", "O", "x", "X", "b", "p", "t"}]

\* `%[(+\-0-9\.0-9#]*(e|E|f|F|g|G)`
patNextFormatFSpecifier ==
    [lead  |-> {"%"},
     cls   |-> Digits \cup {"(", "+", "-", ".", "#"},
     verbs |-> {"e", "E", "f", "F", "g", "G"}]

\* `%t`
patNextFormatBoolSpecifier == [lead |-> {"%"}, cls |-> {}, verbs |-> {"t"}]

\* `%p`
patNextFormatPointerSpecifier == [lead |-> {"%"}, cls |-> {}, verbs |-> {"p"}]

\* The ends q of the matches s[p:q] of the pattern re that start at p: the
\* characters after the first are of the class, up to a conversion letter.
MatchEnds(re, s, p) ==
    {q \in (p + 2) .. Len(s) :
        /\ At(s, q - 1) \in re.verbs
        /\ \A k \in (p + 1) .. (q - 2) : At(s, k) \in re.cls}

\* MatchStarts as it would be had the patterns lost their leading percent
\* sign (any character starts a directive).
MatchStartsAnyLead(re, s) ==
    {p \in 0 .. (Len(s) - 2) : MatchEnds(re, s, p) # {}}

\* The offsets of s at which a match of the pattern re starts.
MatchStarts(re, s) ==
    {p \in 0 .. (Len(s) - 2) : At(s, p) \in re.lead /\ MatchEnds(re, s, p) # {}}

\* All <<p, q>> such that s[p:q] matches the pattern re.
Matches(re, s) ==
    UNION {{<<p, q>> : q \in MatchEnds(re, s, p)} : p \in MatchStarts(re, s)}

\* regexp.FindStringIndex: the leftmost match, the star taking as much as
\* it can; nil when there is none.
FindStringIndex(re, s) ==
    LET starts == MatchStarts(re, s)
    IN  IF starts = {} THEN nil
        ELSE LET p    == CHOOSE a \in starts : \A b \in starts : a <= b
                 ends == MatchEnds(re, s, p)
                 q    == CHOOSE a \in ends : \A b \in ends : a >= b
             IN  <<p, q>>

\* strings.ReplaceAll for a non-empty old: non-overlapping, left to right.
RECURSIVE ReplaceAll(_, _, _)
ReplaceAll(s, old, new) ==
    IF Len(s) < Len(old) THEN s
    ELSE IF SubSeq(s, 1, Len(old)) = old
         THEN new \o ReplaceAll(SubSeq(s, Len(old) + 1, Len(s)), old, new)
         ELSE <<Head(s)>> \o ReplaceAll(Tail(s), old, new)

----------------------------------------------------------------------------
(* UReplaceN                                                               *)

\* The branch of the if chain of lines 175-211 taken for the directive fm:
\* the first of the six patterns that matches, "default" when none does.
Branch(fm) ==
    IF FindStringIndex(patNextFormatPointerSpecifier, fm) # nil THEN "pointer"
    ELSE IF FindStringIndex(patNextFormatBoolSpecifier, fm) # nil THEN "bool"
    ELSE IF FindStringIndex(patNextFormatFSpecifier, fm) # nil THEN "float"
    ELSE IF FindStringIndex(patNextFormatUSpecifier, fm) # nil THEN "u"
    ELSE IF FindStringIndex(patNextFormatISpecifier, fm) # nil THEN "i"
    ELSE IF FindStringIndex(patNextFormatXSpecifier, fm) # nil THEN "hex"
    ELSE "default"

\* Kind with the hex family looked for before the pointer and bool letters.
KindHexFirst(branch, fm) ==
    IF FindStringIndex(patNextFormatXSpecifier, fm) # nil
    THEN (IF Unsigned THEN 0 ELSE 1)
    ELSE CASE branch = "pointer" -> 4
           [] branch = "bool"    -> 3
           [] branch = "float"   -> 2
           [] branch = "u"       -> 0
           [] OTHER              -> 1

\* Kind with the switch Unsigned ignored for the hex family.
KindNoSwitch(branch, fm) ==
    CASE branch = "pointer" -> 4
      [] branch = "bool"    -> 3
      [] branch = "float"   -> 2
      [] branch = "u"       -> 0
      [] OTHER              -> 1

\* Kind with the last line of the loop appending 0: a directive of no family
\* taken for unsigned.
KindDefaultUnsigned(branch, fm) ==
    CASE branch = "pointer" -> 4
      [] branch = "bool"    -> 3
      [] branch = "float"   -> 2
      [] branch = "u"       -> 0
      [] branch = "i"       -> 1
      [] branch = "hex"     -> (IF Unsigned THEN 0 ELSE 1)
      [] OTHER              -> 0

\* Kind with the switch consulted for %ni as well: a rewritten %ni taken
\* for unsigned when Unsigned is set.
KindSwitchedI(branch, fm) ==
    CASE branch = "pointer" -> 4
      [] branch = "bool"    -> 3
      [] branch = "float"   -> 2
      [] branch = "u"       -> 0
      [] branch = "i"       -> (IF Unsigned THEN 0 ELSE 1)
      [] branch = "hex"     -> (IF Unsigned THEN 0 ELSE 1)
      [] OTHER              -> 1

\* The kind appended to u in each branch, for the directive fm.
Kind(branch, fm) ==
    CASE branch = "pointer" -> 4
      [] branch = "bool"    -> 3
      [] branch = "float"   -> 2
      [] branch = "u"       -> 0
      [] branch = "i"       -> 1
      [] branch = "hex"     -> (IF Unsigned THEN 0 ELSE 1)
      [] OTHER              -> 1

\* The branches that replace o[offset-1] by "d": %nu (line 192) and %ni
\* (line 198).
Replaces(branch) == branch \in {"u", "i"}

\* The letter d put in front of the conversion letter instead of in its
\* place: o[:offset-1] + "d" + o[offset-1:].
PutDInFront(o, offset) ==
    Slice(o, 0, offset - 1) \o <<"d">> \o Slice(o, offset - 1, Len(o))

\* o[:offset-1] + "d" + o[offset:]
PutD(o, offset) == Slice(o, 0, offset - 1) \o <<"d">> \o Slice(o, offset, Len(o))

\* The kinds collected in reverse: the new kind put in front.
prependU(u, k) == <<k>> \o u

\* u = append(u, k), lines 177, 182, 187, 193, 199, 205, 207 and 211.
appendU(u, k) == Append(u, k)

\* The scan position moved to the last character of the match instead of
\* behind it: offset += loc[1] - 1.
AdvanceShort(offset, loc) == offset + loc[2] - 1

\* offset += loc[1], line 173.
Advance(offset, loc) == offset + loc[2]

\* The for loop of lines 167-212: i is the masked string, o and u the
\* results so far, offset the scan position.
RECURSIVE UReplaceNLoop(_, _, _, _)
UReplaceNLoop(i, o, u, offset) ==
    LET s   == Slice(i, offset, Len(i))
        loc == FindStringIndex(patNextFormatSpecifier, s)
    IN  IF loc = nil THEN [o |-> o, u |-> u]
        ELSE LET next   == Advance(offset, loc)
                 fm     == Slice(s, loc[1], loc[2])
                 branch == Branch(fm)
             IN  UReplaceNLoop(i,
                               IF Replaces(branch) THEN PutD(o, next) ELSE o,
                               appendU(u, Kind(branch, fm)),
                               next)

\* The masking of line 165 left out.
Unmasked(i) == i

\* i = strings.ReplaceAll(i, "%%", "__"), line 165.
Masked(i) == ReplaceAll(i, <<"%", "%">>, <<"_", "_">>)

\* u kept across calls (a package variable instead of a named result).
uKept == IF last = nil THEN <<>> ELSE last.u

\* The named result u of UReplaceN starts as the nil slice, line 163.
uNil == <<>>

\* func UReplaceN(i string) (o string, u []int)
UReplaceN(i) == UReplaceNLoop(Masked(i), i, uNil, 0)

----------------------------------------------------------------------------
(* The endian reader.  A uint32 is modelled by its four base-256 digits,   *)
(* the most significant first (its values exceed the integers of the       *)
(* model checker).                                                         *)

\* ReadU32 with the byte orders exchanged.
ReadU32Swapped(b) ==
    IF Endian THEN <<b[1], b[2], b[3], b[4]>> ELSE <<b[4], b[3], b[2], b[1]>>

\* func (p *DecoderData) ReadU32(b []byte) uint32: little endian is
\* b[0] | b[1]<<8 | b[2]<<16 | b[3]<<24, big endian the reverse.
ReadU32(b) ==
    IF Endian THEN <<b[4], b[3], b[2], b[1]>> ELSE <<b[1], b[2], b[3], b[4]>>

\* func (p *DecoderData) ReadU16(b []byte) uint16, its two base-256 digits.
ReadU16(b) == IF Endian THEN <<b[2], b[1]>> ELSE <<b[1], b[2]>>

\* func (p *DecoderData) ReadU64(b []byte) uint64, its eight base-256 digits.
ReadU64(b) ==
    IF Endian THEN <<b[8], b[7], b[6], b[5], b[4], b[3], b[2], b[1]>>
    ELSE <<b[1], b[2], b[3], b[4], b[5], b[6], b[7], b[8]>>

\* The bounds check taken one byte too far.
UnderrunOffByOne(b, n) == Len(b) <= n

\* binary.LittleEndian.UintN(b) and binary.BigEndian.UintN(b) index b[n-1]
\* first: a slice of fewer than n bytes makes the call panic.
Underrun(b, n) == Len(b) < n

----------------------------------------------------------------------------
(* Formatting of a record (specification, 4.5 Formatting): every parameter *)
(* is 4 bytes wide, is read by ReadU32, takes the signedness of its kind   *)
(* and is substituted for its directive; %d prints decimal, %x hex, %% a   *)
(* percent sign.                                                           *)

\* int32(n) < 0
Negative(n) == n[1] >= 128

\* n + 1 modulo 256^Len(n)
RECURSIVE Inc(_)
Inc(n) ==
    IF n = <<>> THEN <<>>
    ELSE IF n[Len(n)] = 255
         THEN Inc(SubSeq(n, 1, Len(n) - 1)) \o <<0>>
         ELSE SubSeq(n, 1, Len(n) - 1) \o <<n[Len(n)] + 1>>

\* -int32(n) for a negative int32(n): the two's complement
Magnitude(n) == Inc([k \in 1 .. Len(n) |-> 255 - n[k]])

IsZero(n) == \A k \in 1 .. Len(n) : n[k] = 0

\* Quotient q and remainder r of (r0 * 256^Len(n) + n) by 10.
RECURSIVE DivMod10(_, _)
DivMod10(n, r0) ==
    IF n = <<>> THEN [q |-> <<>>, r |-> r0]
    ELSE LET cur  == r0 * 256 + Head(n)
             rest == DivMod10(Tail(n), cur % 10)
         IN  [q |-> <<cur \div 10>> \o rest.q, r |-> rest.r]

DigitChars ==
    <<"0", "1", "2", "3", "4", "5", "6", "7", "8", "9", "a", "b", "c", "d", "e", "f">>

RECURSIVE DecimalDigits(_)
DecimalDigits(n) ==
    IF IsZero(n) THEN <<>>
    ELSE DecimalDigits(DivMod10(n, 0).q) \o <<DigitChars[DivMod10(n, 0).r + 1]>>

\* n in decimal
Decimal(n) == IF IsZero(n) THEN <<"0">> ELSE DecimalDigits(n)

RECURSIVE HexDigits(_)
HexDigits(n) ==
    IF n = <<>> THEN <<>>
    ELSE <<DigitChars[(Head(n) \div 16) + 1], DigitChars[(Head(n) % 16) + 1]>>
             \o HexDigits(Tail(n))

RECURSIVE StripZeros(_)
StripZeros(s) == IF Len(s) > 1 /\ Head(s) = "0" THEN StripZeros(Tail(s)) ELSE s

\* n in lower-case hex
Hex(n) == StripZeros(HexDigits(n))

\* The text of the value n of the given kind under the verb d or x: a
\* signed kind prints a negative value as a minus sign and its magnitude.
FormatValue(verb, kind, n) ==
    LET neg    == kind = 1 /\ Negative(n)
        mag    == IF neg THEN Magnitude(n) ELSE n
        digits == IF verb = "d" THEN Decimal(mag) ELSE Hex(mag)
    IN  IF neg THEN <<"-">> \o digits ELSE digits

\* The verbs of the directives of o in their order, "%%" being none.
RECURSIVE Verbs(_)
Verbs(o) ==
    IF o = <<>> THEN <<>>
    ELSE IF Head(o) # "%" THEN Verbs(Tail(o))
    ELSE IF Len(o) = 1 THEN <<"%">>
    ELSE IF o[2] = "%" THEN Verbs(SubSeq(o, 3, Len(o)))
    ELSE <<o[2]>> \o Verbs(SubSeq(o, 3, Len(o)))

\* The line for the rewritten format string o, the kinds u and the
\* parameter bytes b.
RECURSIVE Compose(_, _, _)
Compose(o, u, b) ==
    IF o = <<>> THEN <<>>
    ELSE IF Head(o) # "%" \/ Len(o) = 1 THEN <<Head(o)>> \o Compose(Tail(o), u, b)
    ELSE IF o[2] = "%" THEN <<"%">> \o Compose(SubSeq(o, 3, Len(o)), u, b)
    ELSE FormatValue(o[2], Head(u), ReadU32(b))
             \o Compose(SubSeq(o, 3, Len(o)), Tail(u), SubSeq(b, 5, Len(b)))

----------------------------------------------------------------------------
(* Inputs                                                                  *)

\* All strings over Alphabet of at most MaxLen characters are inputs.
MaxLen == 3

Alphabet == {"%", "5", "-", "u", "i", "x", "l", "p", "t", "f", "d", "s"}

RECURSIVE Strings(_, _)
Strings(A, n) ==
    IF n = 0 THEN {<<>>}
    ELSE LET shorter == Strings(A, n - 1)
         IN  shorter \cup {Append(s, c) : s \in {t \in shorter : Len(t) = n - 1}, c \in A}

\* Longer inputs: every concatenation of at most MaxPieces pieces, a piece
\* being a directive, an escaped percent sign, a lone percent sign or text.
MaxPieces == 3

Pieces ==
    {<<"%">>, <<"%", "%">>, <<"%", "d">>, <<"%", "5", "u">>, <<"%", "i">>,
     <<"%", "x">>, <<"%", "p">>, <<"%", "5", "t">>, <<"%", ".", "2", "f">>,
     <<"%", "'", "f">>, <<"%", "s">>, <<"a">>}

RECURSIVE Concats(_, _)
Concats(P, n) ==
    IF n = 0 THEN {<<>>}
    ELSE LET shorter == Concats(P, n - 1)
         IN  shorter \cup {s \o p : s \in shorter, p \in P}

\* The two format strings of the specification's scenarios.
ValHex == <<"v", "a", "l", "=", "%", "d", " ", "h", "e", "x", "=", "%", "x">>
FlagPtr == <<"f", "l", "a", "g", "=", "%", "t", " ", "p", "t", "r", "=", "%", "p">>

\* The conversion letters of the directive pattern that none of the six
\* other patterns names, with a flag and a width digit.
OtherLetters == {"c", "d", "h", "n", "q", "L"}

OtherAlphabet == OtherLetters \cup {"%", "-", "5"}

Inputs ==
    Strings(Alphabet, MaxLen) \cup Strings(OtherAlphabet, MaxLen)
        \cup Concats(Pieces, MaxPieces) \cup {ValHex, FlagPtr}

\* The inputs of the runs with several calls.
MaxRunPieces == 2

RunInputs == Concats(Pieces, MaxRunPieces) \cup {ValHex, FlagPtr}

----------------------------------------------------------------------------
(* One classification of a format string                                   *)

Init ==
    /\ Unsigned \in BOOLEAN
    /\ Endian = TRUE
    /\ fmtIn \in Inputs
    /\ payload = <<>>
    /\ calls = 0
    /\ first = nil
    /\ last = nil
    /\ line = nil
    /\ loop = nil
    /\ DataUnused /\ LutUnused /\ InstUnused

\* A call of UReplaceN on the format string; the caller keeps what it
\* returned together with the value the switch had.
CallUReplaceN ==
    \E r \in {UReplaceN(fmtIn)} :
        /\ last' = [o |-> r.o, u |-> r.u, unsigned |-> Unsigned]
        /\ first' = IF first = nil THEN last' ELSE first
        /\ calls' = IF calls < 2 THEN calls + 1 ELSE calls
        /\ line' = nil
        /\ UNCHANGED <<Unsigned, fmtIn, payload, loop, dataVars, lutVars, instVars>>

\* The classification of a format string not classified before.
Classify ==
    /\ calls = 0
    /\ CallUReplaceN

Next == Classify

Spec == Init /\ [][Next]_vars

----------------------------------------------------------------------------
(* Several calls, the switch being set in between                          *)

InitRun ==
    /\ Unsigned \in BOOLEAN
    /\ Endian = TRUE
    /\ fmtIn \in RunInputs
    /\ payload = <<>>
    /\ calls = 0
    /\ first = nil
    /\ last = nil
    /\ line = nil
    /\ loop = nil
    /\ DataUnused /\ LutUnused /\ InstUnused

\* The main package sets the switch (injected from the command line).
SetUnsigned(b) ==
    /\ Unsigned # b
    /\ Unsigned' = b
    /\ UNCHANGED <<fmtIn, payload, calls, first, last, line, loop>>
    /\ UNCHANGED <<dataVars, lutVars, instVars>>

NextRun ==
    \/ CallUReplaceN
    \/ \E b \in BOOLEAN : SetUnsigned(b)

SpecRun == InitRun /\ [][NextRun]_vars

----------------------------------------------------------------------------
(* UReplaceN taken one loop iteration at a time                            *)

\* The format strings taken step by step: the concatenations of a lone and
\* an escaped percent sign, text, %s and directives of the branches of the
\* loop, and the two strings of the scenarios.
LoopPieces ==
    {<<"%">>, <<"%", "%">>, <<"a">>, <<"%", "s">>, <<"%", "d">>,
     <<"%", "5", "u">>, <<"%", "i">>, <<"%", "x">>, <<"%", ".", "2", "f">>}

LoopInputs == Concats(LoopPieces, MaxPieces) \cup {ValHex, FlagPtr}

InitLoop ==
    /\ Unsigned \in BOOLEAN
    /\ Endian = TRUE
    /\ fmtIn \in LoopInputs
    /\ payload = <<>>
    /\ calls = 0
    /\ first = nil
    /\ last = nil
    /\ line = nil
    /\ loop = nil
    /\ DataUnused /\ LutUnused /\ InstUnused

\* Lines 164-166: o = i, the masking of i, var offset int; n counts the
\* iterations of the for loop.
EnterUReplaceN ==
    /\ loop = nil /\ last = nil
    /\ loop' = [i |-> Masked(fmtIn), o |-> fmtIn, u |-> uNil, offset |-> 0, n |-> 0]
    /\ UNCHANGED <<Unsigned, fmtIn, payload, calls, first, last, line>>
    /\ UNCHANGED <<dataVars, lutVars, instVars>>

\* loc of the iteration that starts in the loop state l, lines 168-169.
LoopLoc(l) == FindStringIndex(patNextFormatSpecifier, Slice(l.i, l.offset, Len(l.i)))

\* An iteration that finds no directive returns o and u, lines 170-172.
LoopReturn ==
    /\ loop # nil /\ last = nil
    /\ \E loc \in {LoopLoc(loop)} :
        /\ loc = nil
        /\ loop' = [loop EXCEPT !.n = @ + 1]
        /\ last' = [o |-> loop.o, u |-> loop.u, unsigned |-> Unsigned]
        /\ first' = last'
        /\ calls' = 1
    /\ UNCHANGED <<Unsigned, fmtIn, payload, line>>
    /\ UNCHANGED <<dataVars, lutVars, instVars>>

\* An iteration that finds a directive moves the offset behind it,
\* classifies it and continues, lines 173-211.
LoopContinue ==
    /\ loop # nil /\ last = nil
    /\ \E loc \in {LoopLoc(loop)} :
        /\ loc # nil
        /\ \E next \in {Advance(loop.offset, loc)},
              fm \in {Slice(loop.i, loop.offset + loc[1], loop.offset + loc[2])} :
            \E branch \in {Branch(fm)} :
                loop' = [loop EXCEPT
                            !.o = IF Replaces(branch) THEN PutD(@, next) ELSE @,
                            !.u = appendU(@, Kind(branch, fm)),
                            !.offset = next,
                            !.n = @ + 1]
    /\ UNCHANGED <<Unsigned, fmtIn, payload, calls, first, last, line>>
    /\ UNCHANGED <<dataVars, lutVars, instVars>>

NextLoop ==
    \/ EnterUReplaceN
    \/ LoopReturn
    \/ LoopContinue

\* A call that has started goes on: nothing in the loop waits for anything.
SpecLoop == InitLoop /\ [][NextLoop]_vars /\ WF_vars(NextLoop)

----------------------------------------------------------------------------
(* The formatting of one record                                            *)

\* A record carries at most MaxParams parameters.
MaxParams == 2

\* 4-byte parameters as they arrive: -1, 255, 0x2000, 1 and 0x80000000 in
\* little endian.
ParamWords ==
    {<<255, 255, 255, 255>>, <<255, 0, 0, 0>>, <<0, 32, 0, 0>>, <<1, 0, 0, 0>>,
     <<0, 0, 0, 128>>}

Payloads == Concats(ParamWords, MaxParams)

RenderInputs ==
    {ValHex, <<"%", "d">>, <<"%", "x">>, <<"%", "u">>, <<"%", "i", "%", "%">>,
     <<"a", "%", "%", "%", "x", "%", "u">>, <<"%", "%">>}

InitRender ==
    /\ Unsigned \in BOOLEAN
    /\ Endian \in BOOLEAN
    /\ fmtIn \in RenderInputs
    /\ payload \in Payloads
    /\ calls = 0
    /\ first = nil
    /\ last = nil
    /\ line = nil
    /\ loop = nil
    /\ DataUnused /\ LutUnused /\ InstUnused

\* The line of the record is composed from what UReplaceN returned, when
\* the record carries one 4-byte parameter per kind and the directives are
\* plain %d and %x with integer kinds.
Render ==
    /\ last # nil
    /\ line = nil
    /\ Len(Verbs(last.o)) = Len(last.u)
    /\ \A k \in 1 .. Len(last.u) :
           Verbs(last.o)[k] \in {"d", "x"} /\ last.u[k] \in {0, 1}
    /\ Len(payload) = 4 * Len(last.u)
    /\ line' = Compose(last.o, last.u, payload)
    /\ UNCHANGED <<Unsigned, fmtIn, payload, calls, first, last, loop>>
    /\ UNCHANGED <<dataVars, lutVars, instVars>>

NextRender ==
    \/ Classify
    \/ Render

SpecRender == InitRender /\ [][NextRender]_vars

----------------------------------------------------------------------------
(* Calls of the endian reader                                              *)

\* The slices handed to the reader hold at most MaxBytes bytes.
MaxBytes == 9

ByteValues == {0, 1, 255}

\* The buffers of the decoder hold these bytes while the reader is called.
HeldIBuf == <<1, 255>>
HeldB == <<255, 0, 1>>

InitRead ==
    /\ ClassUnused
    /\ Endian \in BOOLEAN
    /\ In = NoInput(1) /\ IBuf = HeldIBuf /\ B = HeldB /\ W = <<>>
    /\ bytes \in Strings(ByteValues, MaxBytes)
    /\ ret = nil
    /\ LutUnused /\ InstUnused

\* What a call of the n-byte reader gives: the value v, or a panic.
Returned(n, v) == [n |-> n, panic |-> FALSE, v |-> v]
Panicked(n) == [n |-> n, panic |-> TRUE, v |-> <<>>]

CallReadU16 ==
    /\ ret' = IF Underrun(bytes, 2) THEN Panicked(2) ELSE Returned(2, ReadU16(bytes))
    /\ UNCHANGED <<Endian, In, IBuf, B, W, bytes>>
    /\ UNCHANGED <<classVars, lutVars, instVars>>

CallReadU32 ==
    /\ ret' = IF Underrun(bytes, 4) THEN Panicked(4) ELSE Returned(4, ReadU32(bytes))
    /\ UNCHANGED <<Endian, In, IBuf, B, W, bytes>>
    /\ UNCHANGED <<classVars, lutVars, instVars>>

CallReadU64 ==
    /\ ret' = IF Underrun(bytes, 8) THEN Panicked(8) ELSE Returned(8, ReadU64(bytes))
    /\ UNCHANGED <<Endian, In, IBuf, B, W, bytes>>
    /\ UNCHANGED <<classVars, lutVars, instVars>>

NextRead ==
    \/ CallReadU16
    \/ CallReadU32
    \/ CallReadU64

SpecRead == InitRead /\ [][NextRead]_vars

----------------------------------------------------------------------------
(* The look-up map under its lock (specification, 4.3 Lookup Table and 5): *)
(* every decoder instance resolves an identifier under the read lock, one  *)
(* writer replaces the map, entry by entry, under the write lock.          *)

\* The decoder instances that resolve identifiers, and the writer.
MaxReaders == 2

Readers == 1 .. MaxReaders
Writer == 0

\* The identifiers of the map; an entry is the number of the reload that
\* wrote it (0: the map as first loaded).
LutIds == {1, 2}

\* The writer replaces the map at most MaxReloads times.
MaxReloads == 2

\* A map all of whose entries come from the same load.
Complete(lut) == \A i, j \in DOMAIN lut : lut[i] = lut[j]

InitLut ==
    /\ ClassUnused
    /\ Endian = TRUE /\ DataUnused
    /\ Lut = [i \in LutIds |-> 0]
    /\ LutMutex = [readers |-> {}, writer |-> FALSE, waiting |-> FALSE]
    /\ procs = [p \in Readers \cup {Writer} |->
                   [pc |-> "idle", seen |-> nil, k |-> 0, n |-> 0]]
    /\ InstUnused

\* (*sync.RWMutex).RLock: blocks while a writer holds or awaits the lock.
RLock(r) ==
    /\ ~LutMutex.writer /\ ~LutMutex.waiting
    /\ LutMutex' = [LutMutex EXCEPT !.readers = @ \cup {r}]

\* (*sync.RWMutex).RUnlock
RUnlock(r) == LutMutex' = [LutMutex EXCEPT !.readers = @ \ {r}]

\* (*sync.RWMutex).Lock, first half: the writer announces itself, which
\* keeps new readers out.
LockAnnounce == LutMutex' = [LutMutex EXCEPT !.waiting = TRUE]

\* Lock taken without waiting for the readers to leave.
LockAcquireAtOnce == LutMutex' = [LutMutex EXCEPT !.writer = TRUE, !.waiting = FALSE]

\* (*sync.RWMutex).Lock, second half: the writer gets the lock once no
\* reader holds it.
LockAcquire ==
    /\ LutMutex.readers = {}
    /\ LutMutex' = [LutMutex EXCEPT !.writer = TRUE, !.waiting = FALSE]

\* (*sync.RWMutex).Unlock
Unlock == LutMutex' = [LutMutex EXCEPT !.writer = FALSE]

\* A decoder instance takes the read lock,
ReaderLock(r) ==
    /\ procs[r].pc = "idle"
    /\ RLock(r)
    /\ procs' = [procs EXCEPT ![r].pc = "locked"]
    /\ UNCHANGED <<Lut, classVars, dataVars, instVars>>

\* resolves an identifier in the map as it stands,
Lookup(r) ==
    /\ procs[r].pc = "locked"
    /\ procs' = [procs EXCEPT ![r].pc = "resolved", ![r].seen = Lut]
    /\ UNCHANGED <<Lut, LutMutex, classVars, dataVars, instVars>>

\* and gives the lock back.
ReaderUnlock(r) ==
    /\ procs[r].pc = "resolved"
    /\ RUnlock(r)
    /\ procs' = [procs EXCEPT ![r].pc = "idle"]
    /\ UNCHANGED <<Lut, classVars, dataVars, instVars>>

\* The writer asks for the write lock,
WriterAnnounce ==
    /\ procs[Writer].pc = "idle"
    /\ procs[Writer].n < MaxReloads
    /\ LockAnnounce
    /\ procs' = [procs EXCEPT ![Writer].pc = "waiting"]
    /\ UNCHANGED <<Lut, classVars, dataVars, instVars>>

\* gets it,
WriterLock ==
    /\ procs[Writer].pc = "waiting"
    /\ LockAcquire
    /\ procs' = [procs EXCEPT ![Writer].pc = "writing", ![Writer].k = 0]
    /\ UNCHANGED <<Lut, classVars, dataVars, instVars>>

\* writes the entries of the new load one after the other,
WriteEntry ==
    /\ procs[Writer].pc = "writing"
    /\ procs[Writer].k < Cardinality(LutIds)
    /\ Lut' = [Lut EXCEPT ![procs[Writer].k + 1] = procs[Writer].n + 1]
    /\ procs' = [procs EXCEPT ![Writer].k = @ + 1]
    /\ UNCHANGED <<LutMutex, classVars, dataVars, instVars>>

\* and gives the lock back when all are written.
WriterUnlock ==
    /\ procs[Writer].pc = "writing"
    /\ procs[Writer].k = Cardinality(LutIds)
    /\ Unlock
    /\ procs' = [procs EXCEPT ![Writer].pc = "idle", ![Writer].n = @ + 1]
    /\ UNCHANGED <<Lut, classVars, dataVars, instVars>>

NextLut ==
    \/ \E r \in Readers : ReaderLock(r)
    \/ \E r \in Readers : Lookup(r)
    \/ \E r \in Readers : ReaderUnlock(r)
    \/ WriterAnnounce
    \/ WriterLock
    \/ WriteEntry
    \/ WriterUnlock

SpecLut == InitLut /\ [][NextLut]_vars

----------------------------------------------------------------------------
(* The operations on the decoder data in any order                         *)

\* The readers a decoder is given, each with the bytes it will deliver.
FirstInput == NewReader(1, <<1, 255, 0>>)
SecondInput == NewReader(2, <<0, 1>>)

CoreInputs == {FirstInput, SecondInput}

CoreFormats == {ValHex, <<"%", "5", "u">>, <<"a">>}

CoreSlices == {<<>>, <<1, 255>>, <<255, 0, 0, 1, 0>>, <<1, 0, 0, 0, 0, 0, 0, 255, 1>>}

InitCore ==
    /\ Unsigned \in BOOLEAN
    /\ fmtIn \in CoreFormats
    /\ payload = <<>> /\ calls = 0
    /\ first = nil /\ last = nil /\ line = nil /\ loop = nil
    /\ Endian \in BOOLEAN
    /\ In = FirstInput /\ IBuf = <<>> /\ B = <<>> /\ W = <<>>
    /\ bytes \in CoreSlices
    /\ ret = nil
    /\ LutUnused /\ InstUnused

\* A read from the inner reader gives its next n bytes (none when it has
\* nothing to deliver now); they are appended to IBuf.
Fill(n) ==
    /\ n <= Len(Unread(In))
    /\ IBuf' = IBuf \o SubSeq(Unread(In), 1, n)
    /\ In' = [In EXCEPT !.pos = @ + n]
    /\ UNCHANGED <<Endian, B, W, bytes, ret>>
    /\ UNCHANGED <<classVars, lutVars, instVars>>

\* The assignment kept to the first reader: if p.In == nil { p.In = r }.
AssignInOnce(r) ==
    /\ In' = IF In = NoInput(0) THEN r ELSE In
    /\ UNCHANGED <<Endian, IBuf, B, W, bytes, ret>>

\* The body of setInput on the decoder data: p.In = r
AssignIn(r) ==
    /\ In' = r
    /\ UNCHANGED <<Endian, IBuf, B, W, bytes, ret>>

\* setInput building the decoder data anew around the reader:
\* *p = DecoderData{In: r}.
setInputAnew(r) ==
    /\ In' = r
    /\ Endian' = FALSE /\ IBuf' = <<>> /\ B' = <<>>
    /\ UNCHANGED <<W, bytes, ret>>
    /\ UNCHANGED <<classVars, lutVars, instVars>>

\* func (p *DecoderData) setInput(r io.Reader): p.In = r
setInput(r) ==
    /\ AssignIn(r)
    /\ UNCHANGED <<classVars, lutVars, instVars>>

\* A reader is given to the decoder once, the readers in the order of
\* their names.
NotYetGiven(r) == r.src > In.src

NextCore ==
    \/ CallUReplaceN
    \/ CallReadU16
    \/ CallReadU32
    \/ CallReadU64
    \/ \E r \in CoreInputs : NotYetGiven(r) /\ setInput(r)
    \/ \E n \in 0 .. Len(Unread(In)) : Fill(n)

SpecCore == InitCore /\ [][NextCore]_vars

----------------------------------------------------------------------------
(* One decode session (specification, 4.4 Wire Variant and 4.5 Decoder     *)
(* Core).  The wire variant is an escape based framing: a record is the    *)
(* start byte, the identifier, the count of parameter bytes and the        *)
(* parameter bytes, and byte stuffing keeps the start byte out of the      *)
(* three last.                                                             *)

StartByte == 235

\* The record rec = [id, params] as it travels.
Frame(rec) == <<StartByte, rec.id, Len(rec.params)>> \o rec.params

RECURSIVE Wire(_)
Wire(recs) == IF recs = <<>> THEN <<>> ELSE Frame(Head(recs)) \o Wire(Tail(recs))

\* The bytes a record takes once its count is buffered, all buffered
\* bytes before that.
Extent(buf) == IF Len(buf) >= 3 /\ 3 + buf[3] <= Len(buf) THEN 3 + buf[3] ELSE Len(buf)

\* Malformed framing: the buffer does not begin with a start byte, or a
\* start byte stands inside the record that begins there.
MalformedHead(buf) ==
    /\ buf # <<>>
    /\ \/ buf[1] # StartByte
       \/ \E k \in 2 .. Extent(buf) : buf[k] = StartByte

\* A complete record stands at the head of the buffer.
CompleteHead(buf) ==
    /\ Len(buf) >= 3
    /\ ~MalformedHead(buf)
    /\ Len(buf) >= 3 + buf[3]

\* The look-up map of the session: identifier 1 prints one unsigned 4-byte
\* parameter, identifier 2 is a literal message.
SessionLut == << <<"%", "u">>, <<"o", "k">> >>

\* The annotation written for a record that cannot be decoded.
Diagnostic(id) == <<"?", DigitChars[id + 1]>>

\* The rewritten format string and the kinds can be rendered by Compose.
Renderable(r) ==
    /\ Len(Verbs(r.o)) = Len(r.u)
    /\ \A k \in 1 .. Len(r.u) : Verbs(r.o)[k] \in {"d", "x"} /\ r.u[k] \in {0, 1}

\* Resolving and Formatting: the line of the record of identifier id with
\* the parameter bytes params.
FormatRecord(id, params) ==
    IF id \notin DOMAIN Lut THEN Diagnostic(id)
    ELSE LET r == UReplaceN(Lut[id])
         IN  IF Renderable(r) /\ Len(params) = 4 * Len(r.u)
             THEN Compose(r.o, r.u, params)
             ELSE Diagnostic(id)

\* The records a target sends: two of identifier 1, one of identifier 2 and
\* two of an identifier the map does not hold.
SessionRecords ==
    {[id |-> 1, params |-> <<255, 255, 255, 255>>],
     [id |-> 1, params |-> <<1, 0, 0, 0>>],
     [id |-> 2, params |-> <<>>],
     [id |-> 3, params |-> <<>>],
     [id |-> 3, params |-> <<7>>]}

\* A stream holds at most MaxRecords records,
MaxRecords == 3

\* after nothing or after one corrupted byte.
Leads == {<<>>, <<0>>, <<1>>, <<StartByte>>}

\* The reader of a stream is named by what the target sent.
SessionInputs ==
    {NewReader([lead |-> l, recs |-> rs], l \o Wire(rs)) :
        l \in Leads, rs \in Concats({<<rec>> : rec \in SessionRecords}, MaxRecords)}

InitSession ==
    /\ ClassUnused
    /\ Endian = TRUE
    /\ In \in SessionInputs
    /\ IBuf = <<>> /\ B = <<>> /\ W = <<>>
    /\ bytes = <<>> /\ ret = nil
    /\ Lut = SessionLut
    /\ LutMutex = [readers |-> {}, writer |-> FALSE, waiting |-> FALSE]
    /\ procs = <<>>
    /\ InstUnused

\* The session awaits bytes and a complete record stands in IBuf.
CanExtract == B = <<>> /\ CompleteHead(IBuf)

\* The session awaits bytes and IBuf begins with malformed framing.
CanResync == B = <<>> /\ MalformedHead(IBuf)

\* A record is taken up only when the map holds its identifier.
CanEmitKnownOnly == B # <<>> /\ B[1] \in DOMAIN Lut

\* A record is available in B.
CanEmit == B # <<>>

\* Extract that empties IBuf, the bytes after the record with it.
ExtractTakeAll ==
    /\ CanExtract
    /\ B' = SubSeq(IBuf, 2, 3 + IBuf[3])
    /\ IBuf' = <<>>
    /\ UNCHANGED <<Endian, In, W, bytes, ret>>
    /\ UNCHANGED <<classVars, lutVars, instVars>>

\* Record available: the wire variant takes the complete record at the
\* head of IBuf into B (identifier, count, parameter bytes) and leaves the
\* bytes after it in IBuf.
Extract ==
    /\ CanExtract
    /\ B' = SubSeq(IBuf, 2, 3 + IBuf[3])
    /\ IBuf' = SubSeq(IBuf, 4 + IBuf[3], Len(IBuf))
    /\ UNCHANGED <<Endian, In, W, bytes, ret>>
    /\ UNCHANGED <<classVars, lutVars, instVars>>

\* Resync that throws the whole buffer away.
ResyncDropAll ==
    /\ CanResync
    /\ IBuf' = <<>>
    /\ UNCHANGED <<Endian, In, B, W, bytes, ret>>
    /\ UNCHANGED <<classVars, lutVars, instVars>>

\* Malformed framing: the smallest prefix, one byte, is discarded.
Resync ==
    /\ CanResync
    /\ IBuf' = Tail(IBuf)
    /\ UNCHANGED <<Endian, In, B, W, bytes, ret>>
    /\ UNCHANGED <<classVars, lutVars, instVars>>

\* Resolving, Formatting, Emitting: the line of the record in B is
\* written, its identifier recorded, and the session awaits bytes again.
Emit ==
    /\ CanEmit
    /\ W' = Append(W, FormatRecord(B[1], SubSeq(B, 3, Len(B))))
    /\ LastTriceID' = B[1]
    /\ B' = <<>>
    /\ UNCHANGED <<Endian, In, IBuf, bytes, ret>>
    /\ UNCHANGED <<classVars, lutVars, inst, test>>

NextSession ==
    \/ \E n \in 0 .. Len(Unread(In)) : Fill(n)
    \/ Extract
    \/ Resync
    \/ Emit

SpecSession == InitSession /\ [][NextSession]_vars

\* The session can do nothing more than read no bytes: the reader is
\* read to its end and no other step can be taken.
Quiet ==
    /\ Unread(In) = <<>>
    /\ ~CanExtract
    /\ ~CanResync
    /\ ~CanEmit

----------------------------------------------------------------------------
(* One decode session on streams that may break off inside a record        *)

\* The records of these streams.
FragmentRecords ==
    {[id |-> 1, params |-> <<1, 0, 0, 0>>],
     [id |-> 2, params |-> <<>>],
     [id |-> 3, params |-> <<7>>]}

\* What follows the last record: nothing, a lone start byte, or a record
\* of identifier 1 that breaks off after its first parameter byte.
Tails == {<<>>, <<StartByte>>, <<StartByte, 1, 4, 255>>}

FragmentInputs ==
    {NewReader([lead |-> l, recs |-> rs, tail |-> t], l \o Wire(rs) \o t) :
        l \in {<<>>, <<StartByte>>},
        rs \in Concats({<<rec>> : rec \in FragmentRecords}, MaxRecords),
        t \in Tails}

InitFragments ==
    /\ ClassUnused
    /\ Endian = TRUE
    /\ In \in FragmentInputs
    /\ IBuf = <<>> /\ B = <<>> /\ W = <<>>
    /\ bytes = <<>> /\ ret = nil
    /\ Lut = SessionLut
    /\ LutMutex = [readers |-> {}, writer |-> FALSE, waiting |-> FALSE]
    /\ procs = <<>>
    /\ InstUnused

SpecFragments == InitFragments /\ [][NextSession]_vars

\* The lines of the stream buf when it is delivered in one piece: the
\* steps of the session on a buffer that holds all of it.
RECURSIVE DecodeWhole(_)
DecodeWhole(buf) ==
    IF CompleteHead(buf)
    THEN <<FormatRecord(buf[2], SubSeq(buf, 4, 3 + buf[3]))>>
             \o DecodeWhole(SubSeq(buf, 4 + buf[3], Len(buf)))
    ELSE IF MalformedHead(buf) THEN DecodeWhole(Tail(buf))
    ELSE <<>>

----------------------------------------------------------------------------
(* The char decoder under its test (doCHARableTest, TestCHAR): one decoder *)
(* instance is given the inputs of a table one after another and is read   *)
(* until a Read returns no bytes. The decoder's Read is the plain          *)
(* byte-oriented wire variant of the specification: it hands out the bytes *)
(* of its input as they are.                                               *)

\* The table of TestCHAR.
TestTable == << <<"A", "B", "C", "0", "1", "2">>, <<"a", "b", "3", "4">> >>

\* The bytes and the greatest length of the other inputs.
CharBytes == {"A", "b", "0"}

MaxRowLen == 3

\* The tables: that of TestCHAR and every two inputs of at most MaxRowLen
\* bytes.
CharTables ==
    {TestTable} \cup
    {<<r1, r2>> : r1 \in Strings(CharBytes, MaxRowLen),
                  r2 \in Strings(CharBytes, MaxRowLen)}

\* dec := f(out, nil, nil, nil, nil, endianness): a decoder without input;
\* the test is before its first table row.
InitChar ==
    /\ ClassUnused
    /\ Endian = TRUE /\ DataUnused
    /\ LutUnused
    /\ LastTriceID = 0 /\ inst = <<>>
    /\ test \in {[table |-> t, k |-> 0, act |-> <<>>, acts |-> <<>>, pc |-> "set"] :
                    t \in CharTables}

\* in := ioutil.NopCloser(bytes.NewBuffer(x.in)); dec.SetInput(in): the
\* next row of the table becomes the decoder's input and act starts empty.
TestSetInput ==
    /\ test.pc = "set"
    /\ AssignIn(NewReader(test.k + 1, test.table[test.k + 1]))
    /\ test' = [test EXCEPT !.k = @ + 1, !.act = <<>>, !.pc = "read"]
    /\ UNCHANGED <<classVars, lutVars, LastTriceID, inst>>

\* The numbers of bytes a Read can return: none when the input is
\* exhausted, otherwise at least one of those left.
ReadCounts(r) == IF Unread(r) = <<>> THEN {0} ELSE 1 .. Len(Unread(r))

\* n, err = dec.Read(buf) returns the next n bytes of the input; with
\* n = 0 the test leaves the loop and keeps act as the output of the row,
\* otherwise act += string(buf[:n]).
CharRead(n) ==
    /\ test.pc = "read"
    /\ In' = [In EXCEPT !.pos = @ + n]
    /\ test' = IF n = 0
               THEN [test EXCEPT !.acts = Append(@, test.act),
                                 !.pc = IF test.k = Len(test.table) THEN "done" ELSE "set"]
               ELSE [test EXCEPT !.act = @ \o SubSeq(Unread(In), 1, n)]
    /\ UNCHANGED <<Endian, IBuf, B, W, bytes, ret>>
    /\ UNCHANGED <<classVars, lutVars, LastTriceID, inst>>

NextChar ==
    \/ TestSetInput
    \/ \E n \in ReadCounts(In) : CharRead(n)

SpecChar == InitChar /\ [][NextChar]_vars

----------------------------------------------------------------------------
(* Several decoder instances and the package variable LastTriceID          *)
(* (specification, 4.5 Emitting: the last decoded identifier is recorded   *)
(* and, when a prefix is configured, shown at the start of the line).      *)

\* The decoder instances that run side by side.
MaxInstances == 2

Instances == 1 .. MaxInstances

\* The identifiers the instances decode.
TriceIDs == {1, 2, 3}

InitShared ==
    /\ ClassUnused
    /\ Endian = TRUE /\ DataUnused
    /\ LutUnused
    /\ LastTriceID = 0
    /\ inst = [s \in Instances |-> [id |-> 0, pending |-> FALSE, shown |-> 0]]
    /\ test = nil

\* Instance s has decoded a record of identifier id and records it in
\* decoder.LastTriceID.
RecordID(s, id) ==
    /\ ~inst[s].pending
    /\ LastTriceID' = id
    /\ inst' = [inst EXCEPT ![s].id = id, ![s].pending = TRUE]
    /\ UNCHANGED <<classVars, dataVars, lutVars, test>>

\* Instance s starts the line of its record with decoder.LastTriceID.
ShowLastID(s) ==
    /\ inst[s].pending
    /\ inst' = [inst EXCEPT ![s].shown = LastTriceID, ![s].pending = FALSE]
    /\ UNCHANGED <<LastTriceID, classVars, dataVars, lutVars, test>>

NextShared ==
    \/ \E s \in Instances, id \in TriceIDs : RecordID(s, id)
    \/ \E s \in Instances : ShowLastID(s)

SpecShared == InitShared /\ [][NextShared]_vars

----------------------------------------------------------------------------
(* Vocabulary of the properties                                            *)

\* The directives of the format string i, as <<start, end>> offsets: the
\* matches of the directive pattern outside the escaped percent signs.
Directives(i) == Matches(patNextFormatSpecifier, Masked(i))

\* The position (1, 2, ...) of directive d of i counted from the left.
DirIndex(i, d) == Cardinality({e \in Directives(i) : e[1] <= d[1]})

\* The conversion letter of directive d of i.
Letter(i, d) == At(i, d[2] - 1)

\* The kind UReplaceN reported for directive d of the format string.
KindOf(d) ==
    IF DirIndex(fmtIn, d) <= Len(last.u) THEN last.u[DirIndex(fmtIn, d)] ELSE -1

\* The number of percent signs that directly precede offset p of i.
RECURSIVE PercentsBefore(_, _)
PercentsBefore(i, p) ==
    IF p = 0 \/ At(i, p - 1) # "%" THEN 0 ELSE 1 + PercentsBefore(i, p - 1)

\* An escaped percent sign starts at offset p of i: percent signs pair from
\* the left.
EscapedAt(i, p) ==
    /\ p >= 0 /\ p + 1 < Len(i)
    /\ At(i, p) = "%" /\ At(i, p + 1) = "%"
    /\ PercentsBefore(i, p) % 2 = 0

----------------------------------------------------------------------------
(* Claims                                                                  *)

\* C1 (as claimed): every directive with the conversion letter u, whatever
\* stands between the percent sign and the letter, has its letter rewritten
\* to d and is reported as unsigned (0).
C1_EveryUDirectiveUnsigned ==
    last # nil =>
        \A d \in Directives(fmtIn) :
            Letter(fmtIn, d) = "u" =>
                /\ At(last.o, d[2] - 1) = "d"
                /\ KindOf(d) = 0

\* C2: a format string without a percent sign is returned unchanged, with
\* an empty kind sequence.
C2_LiteralTextUnchanged ==
    (last # nil /\ \A k \in 1 .. Len(fmtIn) : fmtIn[k] # "%") =>
        /\ last.o = fmtIn
        /\ last.u = <<>>

\* C2 witness: UReplaceN was called on literal text that holds conversion
\* letters, digits and flags.
C2_Witness ==
    /\ last # nil
    /\ fmtIn = <<"5", "-", "d">>

\* C3: an escaped %% adds no entry to the kind sequence (the entries are as
\* many as the directives that start outside the escaped percent signs), and
\* every %% of the input stands at the same offset of the returned string.
C3_EscapedPercentIgnored ==
    last # nil =>
        /\ Len(last.u) =
               Cardinality({d \in Matches(patNextFormatSpecifier, fmtIn) :
                               ~EscapedAt(fmtIn, d[1]) /\ ~EscapedAt(fmtIn, d[1] - 1)})
        /\ Len(last.o) = Len(fmtIn)
        /\ \A p \in 0 .. (Len(fmtIn) - 2) :
               (At(fmtIn, p) = "%" /\ At(fmtIn, p + 1) = "%") =>
                   (At(last.o, p) = "%" /\ At(last.o, p + 1) = "%")

\* C3 witness: UReplaceN was called on %%%5u, an escaped percent sign
\* directly followed by a directive that is rewritten.
C3_Witness ==
    /\ last # nil
    /\ fmtIn = <<"%", "%", "%", "5", "u">>
    /\ last.o = <<"%", "%", "%", "5", "d">>
    /\ last.u = <<0>>

\* C4: the kind sequence has one entry per directive, the k-th entry being
\* the kind of the k-th directive from the left (the kind UReplaceN gives
\* that directive standing alone).
C4_OneKindPerDirectiveInOrder ==
    (last # nil /\ last.unsigned = Unsigned) =>
        /\ Len(last.u) = Cardinality(Directives(fmtIn))
        /\ \A d \in Directives(fmtIn) :
               <<KindOf(d)>> = UReplaceN(Slice(fmtIn, d[1], d[2])).u

\* C4 witness: three directives of three different kinds.
C4_Witness ==
    /\ last # nil /\ last.unsigned = Unsigned
    /\ fmtIn = <<"%", "p", "%", "5", "u", "%", "d">>
    /\ last.u = <<4, 0, 1>>

\* C5 (as claimed): every directive with a hex, octal or binary letter,
\* whatever its flags or width, is reported as unsigned (0) when the switch
\* is set and as signed (1) when it is not, and is left unchanged.
C5_EveryHexDirectiveBySwitch ==
    last # nil =>
        \A d \in Directives(fmtIn) :
            Letter(fmtIn, d) \in {"x", "X", "o", "O", "b"} =>
                /\ KindOf(d) = (IF last.unsigned THEN 0 ELSE 1)
                /\ Slice(last.o, d[1], d[2]) = Slice(fmtIn, d[1], d[2])

\* C6 (as claimed): the conversion letter alone decides: p gives pointer
\* (4), t gives bool (3), e E f F g G give float (2), whatever stands between
\* the percent sign and the letter, and the directive is left unchanged.
C6_LetterAloneDecides ==
    last # nil =>
        \A d \in Directives(fmtIn) :
            /\ Letter(fmtIn, d) = "p" => KindOf(d) = 4
            /\ Letter(fmtIn, d) = "t" => KindOf(d) = 3
            /\ Letter(fmtIn, d) \in {"e", "E", "f", "F", "g", "G"} => KindOf(d) = 2
            /\ Letter(fmtIn, d) \in {"p", "t", "e", "E", "f", "F", "g", "G"} =>
                   Slice(last.o, d[1], d[2]) = Slice(fmtIn, d[1], d[2])

\* C7 (as claimed): every directive with the conversion letter i is
\* reported as signed (1) and has its letter rewritten to d, the rest of the
\* directive staying as it was.
C7_EveryIDirectiveRewritten ==
    last # nil =>
        \A d \in Directives(fmtIn) :
            Letter(fmtIn, d) = "i" =>
                /\ KindOf(d) = 1
                /\ At(last.o, d[2] - 1) = "d"
                /\ Slice(last.o, d[1], d[2] - 1) = Slice(fmtIn, d[1], d[2] - 1)

\* The line "val=-1 hex=ff" and the little-endian payload of -1 and 255.
ValHexLine == <<"v", "a", "l", "=", "-", "1", " ", "h", "e", "x", "=", "f", "f">>
ValHexPayload == <<255, 255, 255, 255, 255, 0, 0, 0>>

\* C8 (as claimed): "val=%d hex=%x" gets the kinds signed, unsigned (1, 0)
\* and, with the little-endian payload of -1 and 255, the line
\* "val=-1 hex=ff".
C8_ValHexSignedUnsigned ==
    /\ (fmtIn = ValHex /\ last # nil) => last.u = <<1, 0>>
    /\ (fmtIn = ValHex /\ line # nil /\ Endian /\ payload = ValHexPayload) =>
           line = ValHexLine

\* C8 (amended): "val=%d hex=%x" gets the kinds signed, unsigned (1, 0)
\* when the switch Unsigned is set and signed, signed (1, 1) when it is not;
\* either way the little-endian payload of -1 and 255 gives the line
\* "val=-1 hex=ff".
C8_ValHexKindsBySwitch ==
    /\ (fmtIn = ValHex /\ last # nil) =>
           last.u = <<1, IF last.unsigned THEN 0 ELSE 1>>
    /\ (fmtIn = ValHex /\ line # nil /\ Endian /\ payload = ValHexPayload) =>
           line = ValHexLine

\* C8 witness: the line of "val=%d hex=%x" was composed from the
\* little-endian payload of -1 and 255, the switch being set.
C8_Witness ==
    /\ fmtIn = ValHex
    /\ last # nil /\ last.unsigned /\ last.u = <<1, 0>>
    /\ Endian /\ payload = ValHexPayload
    /\ line = ValHexLine

\* C9: "flag=%t ptr=%p" is returned unchanged with the kinds bool, pointer
\* (3, 4), whatever the switch Unsigned holds.
C9_FlagPtrKinds ==
    (last # nil /\ fmtIn = FlagPtr) =>
        /\ last.o = FlagPtr
        /\ last.u = <<3, 4>>

\* C9 witness: "flag=%t ptr=%p" was classified under both values of the
\* switch.
C9_Witness ==
    /\ fmtIn = FlagPtr
    /\ calls = 2
    /\ first.unsigned # last.unsigned

\* C10 (as claimed): any two calls of UReplaceN on the same format string
\* return the same string and the same kinds, whatever happened in between.
C10_SameResultAlways ==
    calls = 2 => (first.o = last.o /\ first.u = last.u)

\* C10 (amended): any two calls of UReplaceN on the same format string made
\* under the same value of the switch Unsigned return the same string and
\* the same kinds.
C10_SameResultUnderSameSwitch ==
    (calls = 2 /\ first.unsigned = last.unsigned) =>
        (first.o = last.o /\ first.u = last.u)

\* C10 witness: two calls on a string with a hex directive and a rewritten
\* directive, under the same value of the switch.
C10_Witness ==
    /\ calls = 2
    /\ first.unsigned = last.unsigned
    /\ fmtIn = <<"%", "x", "%", "5", "u">>
    /\ last.u = <<0, 0>>

\* C11 (as documented on UReplaceN): a directive %nu whose letter was
\* replaced by d has the kind 1, and when the switch Unsigned is set the
\* directives %nx, %nX, %no, %nO and %nb have the kind 1 as well.
C11_ReplacedAndUnsignedHexAreOne ==
    last # nil =>
        \A d \in Directives(fmtIn) :
            /\ (Letter(fmtIn, d) = "u" /\ At(last.o, d[2] - 1) = "d") =>
                   KindOf(d) = 1
            /\ ( /\ last.unsigned
                 /\ Letter(fmtIn, d) \in {"x", "X", "o", "O", "b"}
                 /\ \A k \in (d[1] + 1) .. (d[2] - 2) : At(fmtIn, k) \in Digits ) =>
                   KindOf(d) = 1

\* C12: a directive whose conversion letter is c, d, h, n, q or L is
\* reported as signed (1) and stands unchanged in the returned string.
C12_OtherLettersSignedUnchanged ==
    last # nil =>
        \A d \in Directives(fmtIn) :
            Letter(fmtIn, d) \in OtherLetters =>
                /\ KindOf(d) = 1
                /\ Slice(last.o, d[1], d[2]) = Slice(fmtIn, d[1], d[2])

\* C12 witness: UReplaceN was called on %-q, a directive of no family that
\* carries a flag.
C12_Witness ==
    /\ last # nil
    /\ fmtIn = <<"%", "-", "q">>
    /\ last.o = fmtIn
    /\ last.u = <<1>>

\* The base-256 digit of weight 256^k of the value v.
Weight(v, k) == v[Len(v) - k]

\* C13: a call of ReadU16, ReadU32 or ReadU64 that returns gives the value
\* of the first N = 2, 4 or 8 bytes of the slice: with Endian set b[k] has
\* the weight 256^k, without it the weight 256^(N-1-k); no later byte takes
\* part.  For N = 2 the value is also compared as a number.
C13_ReadsFirstBytesByEndian ==
    (ret # nil /\ ~ret.panic) =>
        /\ Len(ret.v) = ret.n
        /\ \A k \in 0 .. (ret.n - 1) :
               Weight(ret.v, k) =
                   IF Endian THEN At(bytes, k) ELSE At(bytes, ret.n - 1 - k)
        /\ ret.n = 2 =>
               256 * ret.v[1] + ret.v[2] =
                   IF Endian THEN At(bytes, 0) + 256 * At(bytes, 1)
                   ELSE 256 * At(bytes, 0) + At(bytes, 1)

\* C13 witness: ReadU64 read big endian from a slice of nine bytes, the
\* ninth differing from the eighth.
C13_Witness ==
    /\ ~Endian
    /\ bytes = <<1, 0, 0, 0, 0, 0, 0, 255, 1>>
    /\ ret = Returned(8, <<1, 0, 0, 0, 0, 0, 0, 255>>)

\* C14: a call of ReadU16, ReadU32 or ReadU64 changes neither a field of
\* the decoder data nor the slice, and it fails exactly when the slice holds
\* fewer than N bytes.
C14_ReadsChangeNothingFailOnShort ==
    [][ret' # ret =>
           /\ UNCHANGED <<Endian, In, IBuf, B, W, Lut, LutMutex, bytes>>
           /\ ret'.panic <=> Len(bytes) < ret'.n]_vars

\* C14 witness: ReadU64 failed on a slice of seven bytes, the buffers
\* holding bytes.
C14_Witness ==
    /\ Len(bytes) = 7
    /\ ret = Panicked(8)
    /\ IBuf = HeldIBuf /\ B = HeldB

\* C15: with several decoder instances resolving identifiers while one
\* writer replaces the map under the lock, every lookup runs on a map all of
\* whose entries come from the same load, and a decoder instance that wants
\* to resolve is never kept waiting by other instances that resolve: it gets
\* the read lock whenever no writer holds or awaits the lock.
C15_LookupsSeeWholeMapAndShareLock ==
    /\ \A r \in Readers : procs[r].seen # nil => Complete(procs[r].seen)
    /\ \A r \in Readers :
           (procs[r].pc = "idle" /\ ~LutMutex.writer /\ ~LutMutex.waiting) =>
               ENABLED ReaderLock(r)

\* C15 witness: two decoder instances hold the read lock at the same time,
\* one having resolved on the reloaded map, while the writer awaits the lock
\* for the next reload.
C15_Witness ==
    /\ LutMutex.readers = {1, 2}
    /\ LutMutex.waiting
    /\ procs[1].pc = "resolved" /\ procs[1].seen = [i \in LutIds |-> 1]
    /\ procs[2].pc = "locked"

\* C16 (as claimed): apart from the look-up map no operation of one decoder
\* instance changes a value another instance reads: a step that leaves the
\* locals of instance s alone, being a step of another instance, changes
\* neither LastTriceID nor Unsigned, both of which s reads.
C16_InstancesShareOnlyTheMap ==
    [][\A s \in Instances :
           (inst' # inst /\ inst'[s] = inst[s]) =>
               (LastTriceID' = LastTriceID /\ Unsigned' = Unsigned)]_vars

\* C17 (as claimed): when setInput replaces the input, IBuf and B hold
\* nothing of the previous input afterwards: no byte of the new input has
\* been read at that moment, so both are empty.
C17_SetInputEmptiesBuffers ==
    [][In'.src # In.src => (IBuf' = <<>> /\ B' = <<>>)]_vars

\* C18: no step of UReplaceN, ReadU16, ReadU32, ReadU64 or setInput, in
\* any order, changes the Endian flag of the decoder data or the switch
\* Unsigned.
C18_ConfigurationNeverChanged ==
    [][Endian' = Endian /\ Unsigned' = Unsigned]_vars

\* C18 witness: with the flag and the switch both set, UReplaceN was called
\* twice, a reader was called and the input was replaced.
C18_Witness ==
    /\ Endian /\ Unsigned
    /\ calls = 2
    /\ ret # nil
    /\ In.src = 2
    /\ IBuf # <<>>

\* The lines of the records of identifier 1 and 2 as they should read.
DecodedLine(rec) ==
    IF rec.id = 2 THEN <<"o", "k">>
    ELSE IF rec.params = <<1, 0, 0, 0>> THEN <<"1">>
    ELSE <<"4", "2", "9", "4", "9", "6", "7", "2", "9", "5">>

\* C19: in a stream of well-framed records, each record whose identifier
\* the look-up map does not hold gives exactly one diagnostic line in its
\* place, and the session awaits bytes again: once the stream is worked
\* off, every record before and after it has given its decoded line.
C19_UnknownIdOneDiagnosticLine ==
    (Quiet /\ In.src.lead = <<>>) =>
        /\ B = <<>> /\ IBuf = <<>>
        /\ W = [k \in 1 .. Len(In.src.recs) |->
                   IF In.src.recs[k].id \in DOMAIN Lut
                   THEN DecodedLine(In.src.recs[k])
                   ELSE Diagnostic(In.src.recs[k].id)]

\* C19 witness: a record of identifier 1 followed two records of the
\* unknown identifier 3; the stream is worked off.
C19_Witness ==
    /\ Quiet
    /\ In.src.lead = <<>>
    /\ In.src.recs = <<[id |-> 3, params |-> <<7>>], [id |-> 3, params |-> <<>>],
                        [id |-> 1, params |-> <<1, 0, 0, 0>>]>>
    /\ W = << <<"?", "3">>, <<"?", "3">>, <<"1">> >>
    /\ LastTriceID = 1

\* C20: a stream of one corrupted byte followed by N records the map holds
\* gives exactly the N decoded lines: when the session can do nothing more,
\* no byte of a record is left in the buffers and the N lines are written.
C20_ResyncAfterCorruptedByte ==
    ( /\ Quiet
      /\ Len(In.src.lead) = 1
      /\ \A k \in 1 .. Len(In.src.recs) : In.src.recs[k].id \in DOMAIN Lut ) =>
        /\ B = <<>>
        /\ In.src.recs # <<>> => IBuf = <<>>
        /\ W = [k \in 1 .. Len(In.src.recs) |-> DecodedLine(In.src.recs[k])]

\* C20 witness: a corrupted byte that reads as a start byte came before
\* three records; the stream is worked off.
C20_Witness ==
    /\ Quiet
    /\ In.src.lead = <<StartByte>>
    /\ In.src.recs = <<[id |-> 1, params |-> <<255, 255, 255, 255>>],
                        [id |-> 2, params |-> <<>>],
                        [id |-> 1, params |-> <<1, 0, 0, 0>>]>>
    /\ W = << <<"4", "2", "9", "4", "9", "6", "7", "2", "9", "5">>, <<"o", "k">>, <<"1">> >>

\* C21: however the stream is split into reads, reads of no bytes
\* included, the lines written are those of the stream delivered in one
\* piece: at any moment the lines written so far are the first of them, each
\* a whole line, and when the session can do nothing more all of them are
\* written; the bytes after an extracted record stay in IBuf, so that what
\* is buffered and unread is always the rest of the stream.
C21_SplitReadsSameLines ==
    /\ Len(W) <= Len(DecodeWhole(In.data))
    /\ W = SubSeq(DecodeWhole(In.data), 1, Len(W))
    /\ Quiet => W = DecodeWhole(In.data)
    /\ B = <<>> =>
           DecodeWhole(IBuf \o Unread(In)) =
               SubSeq(DecodeWhole(In.data), Len(W) + 1, Len(DecodeWhole(In.data)))

\* C21 witness: a stream of two records and a record that breaks off was
\* read in pieces that end inside the records; the first record is in B,
\* the first bytes of the second wait in IBuf, no line is written yet.
C21_Witness ==
    /\ In.src.lead = <<>>
    /\ In.src.recs = <<[id |-> 1, params |-> <<1, 0, 0, 0>>], [id |-> 3, params |-> <<7>>]>>
    /\ In.src.tail = <<StartByte, 1, 4, 255>>
    /\ B = <<1, 4, 1, 0, 0, 0>>
    /\ IBuf = <<StartByte, 3>>
    /\ W = <<>>

Rewritten(i, d) ==
    /\ Letter(i, d) \in {"u", "i"}
    /\ \A k \in (d[1] + 1) .. (d[2] - 2) : At(i, k) \in Digits

\* C23: the returned string is as long as the input and differs from it
\* only at the offsets that hold the letter u or i of a rewritten directive,
\* where it holds d; at every other offset the two are the same.
C23_OnlyRewrittenLettersChange ==
    last # nil =>
        /\ Len(last.o) = Len(fmtIn)
        /\ \A p \in 0 .. (Len(fmtIn) - 1) :
               IF \E d \in Directives(fmtIn) : d[2] - 1 = p /\ Rewritten(fmtIn, d)
               THEN At(last.o, p) = "d" /\ At(fmtIn, p) \in {"u", "i"}
               ELSE At(last.o, p) = At(fmtIn, p)

\* C23 witness: UReplaceN was called on %5u%%%i, two rewritten directives
\* around an escaped percent sign; only the two letters changed.
C23_Witness ==
    /\ last # nil
    /\ fmtIn = <<"%", "5", "u", "%", "%", "%", "i">>
    /\ last.o = <<"%", "5", "d", "%", "%", "%", "d">>

\* C24: UReplaceN terminates on every finite string: an iteration of its
\* loop returns or moves the scan offset forward by at least two
\* characters, the offset never exceeds the length of the string, the
\* iterations are at most half the length of the string plus one, and the
\* call returns; what it returns is what UReplaceN is defined to give.
C24_LoopTerminates ==
    /\ [][(loop # nil /\ last = nil) =>
             (last' # nil \/ loop'.offset >= loop.offset + 2)]_vars
    /\ [](loop # nil =>
             /\ loop.offset <= Len(fmtIn)
             /\ loop.n <= (Len(fmtIn) \div 2) + 1)
    /\ [](last # nil =>
             (last.o = UReplaceN(fmtIn).o /\ last.u = UReplaceN(fmtIn).u))
    /\ <>(last # nil)

\* C24 witness: the call on %d%x%i has returned after four iterations, as
\* many as half the length plus one, with the offset at the end of the
\* string.
C24_Witness ==
    /\ last # nil
    /\ fmtIn = <<"%", "d", "%", "x", "%", "i">>
    /\ loop.n = 4
    /\ loop.offset = 6

\* The directive d of i falls under the hex-family rule: only digits stand
\* between the percent sign and a letter of the family, and it is not the
\* plain %p or %t that the pointer and bool rules take first.
HexRule(i, d) ==
    /\ Letter(i, d) \in {"l", "o", "O", "x", "X", "b", "p", "t"}
    /\ \A k \in (d[1] + 1) .. (d[2] - 2) : At(i, k) \in Digits
    /\ ~(d[2] - d[1] = 2 /\ Letter(i, d) \in {"p", "t"})

\* C25: the switch Unsigned influences only the kinds of the directives of
\* the hex-family rule: called on the same format string with the switch
\* set and with it clear, UReplaceN returns the same string and kind
\* sequences of the same length, which hold 0 and 1 respectively at the
\* directives of the hex-family rule and are equal at every other one.
C25_SwitchTouchesOnlyHexKinds ==
    (calls = 2 /\ first.unsigned # last.unsigned) =>
        LET set   == IF first.unsigned THEN first ELSE last
            clear == IF first.unsigned THEN last ELSE first
        IN  /\ set.o = clear.o
            /\ Len(set.u) = Len(clear.u)
            /\ Len(set.u) = Cardinality(Directives(fmtIn))
            /\ \A d \in Directives(fmtIn) :
                   IF HexRule(fmtIn, d)
                   THEN /\ set.u[DirIndex(fmtIn, d)] = 0
                        /\ clear.u[DirIndex(fmtIn, d)] = 1
                   ELSE set.u[DirIndex(fmtIn, d)] = clear.u[DirIndex(fmtIn, d)]

\* C25 witness: %5t%i was classified with the switch set and then with it
\* clear; the kinds differ at %5t, which the hex-family rule takes, and not
\* at the rewritten %i.
C25_Witness ==
    /\ calls = 2
    /\ first.unsigned /\ ~last.unsigned
    /\ fmtIn = <<"%", "5", "t", "%", "i">>
    /\ first.u = <<0, 1>> /\ last.u = <<1, 1>>
    /\ first.o = last.o

\* The %s directives of i, as <<start, end>> offsets: a percent sign outside
\* the escaped percent signs, digits or none, and the letter s.
SDirectives(i) ==
    {<<p, q>> \in (0 .. Len(i)) \X (0 .. Len(i)) :
        /\ p + 2 <= q
        /\ At(Masked(i), p) = "%"
        /\ At(i, q - 1) = "s"
        /\ \A k \in (p + 1) .. (q - 2) : At(i, k) \in Digits}

\* The string i with plain text in the place of its characters p .. q-1.
TextAt(i, p, q) == [k \in 1 .. Len(i) |-> IF p < k /\ k <= q THEN "a" ELSE i[k]]

\* C26: a %s directive, with or without width digits, is ignored: it stands
\* unchanged in the returned string, no directive that is classified
\* reaches into it, and the kinds and the rest of the returned string are
\* those of the same string with plain text in the place of the %s, so the
\* directives before and after it keep their classification and position.
C26_PercentSIgnored ==
    last # nil =>
        \A sd \in SDirectives(fmtIn) :
            /\ Slice(last.o, sd[1], sd[2]) = Slice(fmtIn, sd[1], sd[2])
            /\ \A d \in Directives(fmtIn) : d[2] <= sd[1] \/ sd[2] <= d[1]
            /\ Len(last.u) = Cardinality(Directives(fmtIn))
            /\ \E r \in {UReplaceN(TextAt(fmtIn, sd[1], sd[2]))} :
                   /\ last.u = r.u
                   /\ Len(last.o) = Len(r.o)
                   /\ \A k \in 1 .. Len(last.o) :
                          (k <= sd[1] \/ k > sd[2]) => last.o[k] = r.o[k]

\* C26 witness: UReplaceN was called on %5u%s%i, a %s between two rewritten
\* directives; the %s stands as it was and the kinds are those of the two.
C26_Witness ==
    /\ last # nil
    /\ fmtIn = <<"%", "5", "u", "%", "s", "%", "i">>
    /\ last.o = <<"%", "5", "d", "%", "s", "%", "d">>
    /\ last.u = <<0, 1>>

====
